---- MODULE Spec2Model ----
(***************************************************************************)
(* Verification model of smart-stt: the retry policy (utils/retry.ts), the *)
(* timeout guard (utils/timeout.ts), the error taxonomy (utils/errors.ts), *)
(* the dictation and edit pipelines (modes/*/handler.ts) and the session   *)
(* controller of the main process (main.ts).                               *)
(*                                                                         *)
(* The specifications share the variables:                                 *)
(*   SpecRetry    one call of withRetry                                    *)
(*   SpecTimeout  one call of withTimeout                                  *)
(*   Spec         the session controller with its pipeline runs, hotkeys   *)
(*                pressed at any moment                                    *)
(*   SpecSolo     the same, hotkeys pressed for one session at a time      *)
(*   SpecSoloFair SpecSolo with the time-bounded steps eventually taken    *)
(*   SpecOverlap  the same, the edit hotkey also pressed during a run      *)
(*   SpecPipeline the pipelines called with a shouldCancel callback        *)
(*   SpecErrors   categorizeAPIError and isRetryableError on a caught value*)
(*   SpecOverlay  the overlay's recorder and display, driven by the record *)
(*                and cancel hotkeys, the handler summarized by its result *)
(* Each one keeps the variables of the other parts at their dormant        *)
(* values.  In the session specifications the overlay appears as the       *)
(* reader of the messages the main process sends and as the caller of      *)
(* process-audio and process-edit.                                         *)
(***************************************************************************)
EXTENDS Integers, Sequences, FiniteSets, TLC

VARIABLES
    \* ---- withRetry ----
    finalConfig,    \* the merged RetryConfig of the call
    rpc,            \* position inside withRetry
    attempt,        \* loop variable of withRetry
    lastError,      \* lastError of withRetry
    calls,          \* number of invocations of operation()
    errs,           \* history: the errors operation() rejected with, in order
    onRetryCalls,   \* history: the arguments of every onRetry call
    sleeps,         \* history: the delays passed to sleep()
    isCancelledNow, \* what config.isCancelled() returns at this moment
    cancelSetAt,    \* history: value of calls when the session was cancelled
    rresult,        \* how the withRetry promise settled
    \* ---- withTimeout ----
    tpc,            \* position inside withTimeout
    operationName,  \* argument operationName
    timeoutMs,      \* argument timeoutMs
    timeoutHandle,  \* the deadline timer: none, pending, fired or cleared
    isTimedOut,     \* isTimedOut of withTimeout
    opSettled,      \* how the promise returned by operation() settled
    tresult,        \* how the withTimeout promise settled
    \* ---- main process (main.ts) ----
    isRecording,
    isProcessing,
    recordingMode,
    pendingEditText,
    cancelInProgress,
    cancelTimers,     \* pending setTimeout(..., 50) callbacks of cancelRecording
    editCaptures,     \* startEditMode calls waiting inside their capture
    runs,             \* the process-audio / process-edit handler calls
    clipboard,        \* the text of the system clipboard
    overlayMsgs,      \* webContents.send messages not yet handled by the overlay
    \* ---- error helpers (utils/errors.ts) ----
    errorCase,        \* a caught value and what the helpers answered for it
    \* ---- overlay (renderer/overlay-controller.ts) ----
    overlay           \* the variables of createOverlayController and its
                      \* pending asynchronous steps

rvars == <<finalConfig, rpc, attempt, lastError, calls, errs, onRetryCalls,
           sleeps, isCancelledNow, cancelSetAt, rresult>>

tvars == <<tpc, operationName, timeoutMs, timeoutHandle, isTimedOut, opSettled,
           tresult>>

svars == <<isRecording, isProcessing, recordingMode, pendingEditText,
           cancelInProgress, cancelTimers, editCaptures, runs, clipboard,
           overlayMsgs>>

vars == <<rvars, tvars, svars, errorCase, overlay>>

\* What the actions of one component leave alone
NotRetry == <<tvars, svars, errorCase, overlay>>
NotTimeout == <<rvars, svars, errorCase, overlay>>
NotSession == <<rvars, tvars, errorCase, overlay>>

(***************************************************************************)
(* Bounds                                                                  *)
(***************************************************************************)
MaxAttemptsBound == 7
MaxValue == 3
MaxRuns == 1
MaxPending == 1
MaxOverlayMsgs == 1
MaxTimers == 2
MaxStatus == 600

(***************************************************************************)
(* Error taxonomy (utils/errors.ts)                                        *)
(***************************************************************************)
NoError == [kind |-> "none", category |-> "none", canRetry |-> FALSE,
            status |-> 0, message |-> "", operation |-> "",
            timeoutMs |-> 0, userMessage |-> "", id |-> 0]

\* new SmartSTTError({category, message, userMessage, canRetry})
SmartSTTError(category, message, userMessage, canRetry) ==
    [kind |-> "SmartSTTError", category |-> category, canRetry |-> canRetry,
     status |-> 0, message |-> message, operation |-> "",
     timeoutMs |-> 0, userMessage |-> userMessage, id |-> 0]

\* openai's APIError with an HTTP status (0 stands for an undefined status)
APIError(status) ==
    [kind |-> "APIError", category |-> "none", canRetry |-> FALSE,
     status |-> status, message |-> "api", operation |-> "",
     timeoutMs |-> 0, userMessage |-> "", id |-> 0]

\* new Error(message)
PlainError(message) ==
    [kind |-> "Error", category |-> "none", canRetry |-> FALSE,
     status |-> 0, message |-> message, operation |-> "",
     timeoutMs |-> 0, userMessage |-> "", id |-> 0]

\* new CancelledError()
CancelledError ==
    [kind |-> "CancelledError", category |-> "none", canRetry |-> FALSE,
     status |-> 0, message |-> "Operation cancelled by user",
     operation |-> "", timeoutMs |-> 0, userMessage |-> "", id |-> 0]

isCancelledError(error) == error.kind = "CancelledError"

createNetworkError ==
    SmartSTTError("network", "Network error",
                  "Erro de conexao. Verifique sua internet e tente novamente.", TRUE)
createAuthError ==
    SmartSTTError("api_auth", "API authentication error",
                  "Chave da API invalida. Configure a chave correta nas configuracoes.",
                  FALSE)
createRateLimitError ==
    SmartSTTError("api_rate_limit", "API rate limit exceeded",
                  "Limite de uso da API atingido. Aguarde alguns minutos e tente novamente.",
                  TRUE)

createTimeoutError_NotRetryable(operation, ms) ==
    [SmartSTTError("timeout", "Operation timed out",
                   "A operacao demorou muito. Tente novamente.", FALSE)
        EXCEPT !.operation = operation, !.timeoutMs = ms]

\* message: `Operation '${operation}' timed out after ${timeoutMs}ms`
createTimeoutError(operation, ms) ==
    [SmartSTTError("timeout", "Operation timed out",
                   "A operacao demorou muito. Tente novamente.", TRUE)
        EXCEPT !.operation = operation, !.timeoutMs = ms]

categorizeAPIError_No429(error) ==
    IF error.kind # "APIError"
      THEN SmartSTTError("unknown", "Unexpected error",
                         "Erro desconhecido. Tente novamente.", TRUE)
    ELSE IF error.status = 401 \/ error.status = 403 THEN createAuthError
    ELSE IF error.status # 0 /\ error.status >= 400 /\ error.status < 500
      THEN SmartSTTError("api_validation", "API validation error",
                         "Dados invalidos enviados para a API.", FALSE)
    ELSE IF error.status # 0 /\ error.status >= 500
      THEN SmartSTTError("network", "API server error",
                         "Erro no servidor da API. Tente novamente.", TRUE)
    ELSE IF error.status = 0 THEN createNetworkError
    ELSE SmartSTTError("unknown", "API error",
                       "Erro ao comunicar com a API. Tente novamente.", TRUE)

categorizeAPIError(error) ==
    IF error.kind # "APIError"
      THEN SmartSTTError("unknown", "Unexpected error",
                         "Erro desconhecido. Tente novamente.", TRUE)
    ELSE IF error.status = 401 \/ error.status = 403 THEN createAuthError
    ELSE IF error.status = 429 THEN createRateLimitError
    ELSE IF error.status # 0 /\ error.status >= 400 /\ error.status < 500
      THEN SmartSTTError("api_validation", "API validation error",
                         "Dados invalidos enviados para a API.", FALSE)
    ELSE IF error.status # 0 /\ error.status >= 500
      THEN SmartSTTError("network", "API server error",
                         "Erro no servidor da API. Tente novamente.", TRUE)
    ELSE IF error.status = 0 THEN createNetworkError
    ELSE SmartSTTError("unknown", "API error",
                       "Erro ao comunicar com a API. Tente novamente.", TRUE)

createPasteFailureError_Fatal ==
    SmartSTTError("unknown", "Paste simulation failed",
                  "Texto copiado. Cole manualmente com Ctrl+V.", FALSE)

createPasteFailureError ==
    SmartSTTError("clipboard", "Paste simulation failed",
                  "Texto copiado. Cole manualmente com Ctrl+V.", FALSE)

createCopyFailureError_Retryable ==
    SmartSTTError("clipboard", "Copy simulation failed",
                  "Nao foi possivel copiar o texto selecionado.", TRUE)

createCopyFailureError ==
    SmartSTTError("clipboard", "Copy simulation failed",
                  "Nao foi possivel copiar o texto selecionado.", FALSE)

createEmptyAudioError ==
    SmartSTTError("audio", "Audio buffer is empty",
                  "Audio vazio. Grave novamente.", FALSE)

createInvalidAudioError ==
    SmartSTTError("audio", "Invalid audio",
                  "Formato de audio invalido.", FALSE)

createMissingApiKeyError ==
    SmartSTTError("configuration", "OpenAI API key not configured",
                  "Configure a chave da OpenAI nas configuracoes.", FALSE)

createEditNoTextError_Unknown ==
    SmartSTTError("unknown", "No text available for editing",
                  "Selecione ou copie um texto antes de editar.", FALSE)

createEditNoTextError ==
    SmartSTTError("edit_mode", "No text available for editing",
                  "Selecione ou copie um texto antes de editar.", FALSE)

createEditEmptyInstructionError ==
    SmartSTTError("edit_mode", "Empty edit instruction after transcription",
                  "Instrucao de edicao vazia. Grave novamente.", FALSE)

createEditEmptyResultError ==
    SmartSTTError("edit_mode", "LLM returned empty text after editing",
                  "A edicao resultou em texto vazio.", FALSE)

isRetryableError_NoDelegation(error) ==
    IF error.kind = "CancelledError" THEN FALSE
    ELSE IF error.kind = "SmartSTTError" THEN error.canRetry
    ELSE TRUE

isRetryableError(error) ==
    IF error.kind = "CancelledError" THEN FALSE
    ELSE IF error.kind = "SmartSTTError" THEN error.canRetry
    ELSE IF error.kind = "APIError" THEN categorizeAPIError(error).canRetry
    ELSE TRUE


Resolved(v) == [kind |-> "resolved", value |-> v, error |-> NoError]
Rejected(e) == [kind |-> "rejected", value |-> 0, error |-> e]
Pending == [kind |-> "pending", value |-> 0, error |-> NoError]

\* null of pendingEditText
Null == "<null>"

\* What a handler has not returned yet
NoResult ==
    [ok |-> FALSE, text |-> "", warning |-> "", error |-> "", category |-> "",
     canRetry |-> "", cancelled |-> FALSE, set |-> FALSE]

\* A slot of runs that holds no handler call
FreeRun ==
    [mode |-> "dictation", pc |-> "free", previousClipboard |-> "",
     baseText |-> Null, finalText |-> "", clipboardWrites |-> 0, pastes |-> 0,
     cancelRequested |-> FALSE, pasteFailed |-> FALSE, result |-> NoResult,
     clipboardAtReport |-> "", stages |-> <<>>, thrown |-> NoError,
     shouldCancel |-> FALSE, caller |-> "handler",
     instruction |-> Null, editedText |-> Null,
     bufferLength |-> 1, sttCalls |-> 0, apiKey |-> Null,
     clipboardAtStart |-> ""]

\* No value under classification
ErrorsDormant ==
    errorCase = [pc |-> "off", error |-> NoError, categorized |-> NoError,
                 retryable |-> FALSE]

\* The overlay after init(): idle, no recorder, nothing pending.
\*   state          overlayEl.dataset.state
\*   category       the category of the error shown ("none": no error shown,
\*                  "": an error without category)
\*   mediaRecorder  "null", or the state of the recorder the variable holds
\*   orphaned       a recorder the variable no longer holds is recording
\*   acquiring      startRecording calls waiting for getUserMedia
\*   onstops        stopped recorders whose onstop handler has not run
\*   invoke         the processAudio invoke of onstop: none, sent, running
\*   timers         pending setTimeout callbacks that set the state to idle
OverlayReady ==
    [state |-> "idle", category |-> "none", mediaRecorder |-> "null",
     orphaned |-> FALSE, skipProcessing |-> FALSE, acquiring |-> 0,
     onstops |-> 0, invoke |-> "none", timers |-> 0]

SessionDormant ==
    /\ overlay = OverlayReady
    /\ isRecording = FALSE
    /\ isProcessing = FALSE
    /\ recordingMode = "dictation"
    /\ pendingEditText = Null
    /\ cancelInProgress = FALSE
    /\ cancelTimers = 0
    /\ editCaptures = <<>>
    /\ runs = [i \in 1..MaxRuns |-> FreeRun]
    /\ clipboard = ""
    /\ overlayMsgs = <<>>

TimeoutDormant ==
    /\ tpc = "off"
    /\ operationName = ""
    /\ timeoutMs = 0
    /\ timeoutHandle = "none"
    /\ isTimedOut = FALSE
    /\ opSettled = Pending
    /\ tresult = Pending

(***************************************************************************)
(* RetryPolicy (utils/retry.ts)                                            *)
(***************************************************************************)
RECURSIVE Pow(_, _)
\* Math.pow(base, exponent) for the non-negative integers the model uses
Pow(base, exponent) == IF exponent = 0 THEN 1 ELSE base * Pow(base, exponent - 1)

Min(a, b) == IF a <= b THEN a ELSE b

calculateDelay_OffByOne(n, initialDelayMs, maxDelayMs, backoffMultiplier) ==
    Min(initialDelayMs * Pow(backoffMultiplier, n), maxDelayMs)

calculateDelay(n, initialDelayMs, maxDelayMs, backoffMultiplier) ==
    LET delay == initialDelayMs * Pow(backoffMultiplier, n - 1)
    IN  Min(delay, maxDelayMs)

\* DEFAULT_CONFIG, and the same numbers in createAPIRetryConfig
DEFAULT_CONFIG ==
    [maxAttempts |-> 3, initialDelayMs |-> 1000, maxDelayMs |-> 10000,
     backoffMultiplier |-> 2, shouldRetry |-> "isRetryableError",
     hasIsCancelled |-> FALSE, hasOnRetry |-> FALSE]

\* The delay settings a caller overrides DEFAULT_CONFIG with
DelaySettings ==
    { [initialDelayMs |-> 1000, maxDelayMs |-> 10000, backoffMultiplier |-> 2],
      [initialDelayMs |-> 1000, maxDelayMs |-> 3000,  backoffMultiplier |-> 2],
      [initialDelayMs |-> 500,  maxDelayMs |-> 10000, backoffMultiplier |-> 3] }

\* createAPIRetryConfig() without overrides, the configuration cleanText and
\* applyInstructionToText pass: no isCancelled, no onRetry
createAPIRetryConfig ==
    [maxAttempts |-> 3, initialDelayMs |-> 1000, maxDelayMs |-> 10000,
     backoffMultiplier |-> 2, shouldRetry |-> "isRetryableError",
     hasIsCancelled |-> FALSE, hasOnRetry |-> FALSE]

\* finalConfig = { ...DEFAULT_CONFIG, ...config } for the overrides modelled
RetryConfigs ==
    { [DEFAULT_CONFIG EXCEPT !.maxAttempts = n,
                             !.initialDelayMs = d.initialDelayMs,
                             !.maxDelayMs = d.maxDelayMs,
                             !.backoffMultiplier = d.backoffMultiplier,
                             !.shouldRetry = s,
                             !.hasIsCancelled = c,
                             !.hasOnRetry = o] :
        n \in 1..MaxAttemptsBound, d \in DelaySettings,
        s \in {"isRetryableError", "messageIncludesNetwork"},
        c \in BOOLEAN, o \in BOOLEAN }

\* finalConfig.shouldRetry(error): the default predicate, or the custom
\* predicate of the tests (error.message.includes('Network'))
shouldRetry(config, error) ==
    IF config.shouldRetry = "isRetryableError"
      THEN isRetryableError(error)
      ELSE error.message \in {"Network error", "API server error"}

\* if (!finalConfig.shouldRetry(error)) throw error
GivesUp_Never(config, error) == FALSE

GivesUp(config, error) == ~shouldRetry(config, error)

\* What withRetry throws when isCancelled() is true
RetryCancelThrow == PlainError("Operation cancelled by user")

\* The errors the wrapped operation rejects with
OperationErrors ==
    { createNetworkError, createAuthError, APIError(429), APIError(400),
      PlainError("Custom error") }

NeverCancelled == [calls |-> -1, rpc |-> "never"]

RetryDormant ==
    /\ finalConfig = DEFAULT_CONFIG
    /\ rpc = "off"
    /\ attempt = 0
    /\ lastError = NoError
    /\ calls = 0
    /\ errs = <<>>
    /\ onRetryCalls = <<>>
    /\ sleeps = <<>>
    /\ isCancelledNow = FALSE
    /\ cancelSetAt = NeverCancelled
    /\ rresult = Pending

InitRetry ==
    /\ TimeoutDormant
    /\ SessionDormant
    /\ ErrorsDormant
    /\ finalConfig \in RetryConfigs
    /\ rpc = "start"
    /\ attempt = 1
    /\ lastError = NoError
    /\ calls = 0
    /\ errs = <<>>
    /\ onRetryCalls = <<>>
    /\ sleeps = <<>>
    /\ isCancelledNow \in {FALSE, finalConfig.hasIsCancelled}
    /\ cancelSetAt = IF isCancelledNow THEN [calls |-> 0, rpc |-> "start"]
                                       ELSE NeverCancelled
    /\ rresult = Pending

\* if (finalConfig.isCancelled?.()) before attempt n
CancelCheck_RetriesOnly(config, flag, n) ==
    config.hasIsCancelled /\ flag /\ n > 1

CancelCheck(config, flag, n) == config.hasIsCancelled /\ flag

\* if (attempt === finalConfig.maxAttempts) break
IsLastAttempt_OffByOne(n, maxAttempts) == n >= maxAttempts - 1

IsLastAttempt(n, maxAttempts) == n = maxAttempts

\* finalConfig.onRetry(attempt, error, delayMs)
OnRetryArgs_NextAttempt(n, error, delayMs) == <<n + 1, error, delayMs>>

OnRetryArgs(n, error, delayMs) == <<n, error, delayMs>>

\* The head of the for loop, reached at the call and after each sleep:
\* attempt++ (after a sleep), the isCancelled check, then operation() is invoked
RetryAttempt ==
    /\ UNCHANGED NotRetry
    /\ rpc \in {"start", "sleep"}
    /\ LET n == IF rpc = "sleep" THEN attempt + 1 ELSE attempt IN
       /\ attempt' = n
       /\ IF n > finalConfig.maxAttempts
            THEN \* the loop ends: throw lastError
                 /\ rpc' = "done"
                 /\ rresult' = Rejected(lastError)
                 /\ calls' = calls
            ELSE IF CancelCheck(finalConfig, isCancelledNow, n)
            THEN /\ rpc' = "done"
                 /\ rresult' = Rejected(RetryCancelThrow)
                 /\ calls' = calls
            ELSE /\ rpc' = "await"
                 /\ calls' = calls + 1
                 /\ rresult' = rresult
    /\ UNCHANGED <<finalConfig, lastError, errs, onRetryCalls, sleeps,
                   isCancelledNow, cancelSetAt>>

\* return await operation(): the operation resolved
OperationResolves ==
    /\ UNCHANGED NotRetry
    /\ rpc = "await"
    /\ rpc' = "done"
    /\ rresult' = Resolved(calls)
    /\ UNCHANGED <<finalConfig, attempt, lastError, calls, errs, onRetryCalls,
                   sleeps, isCancelledNow, cancelSetAt>>

\* The catch block of withRetry for the error the operation rejected with
RetryCatch(error) ==
    /\ lastError' = error
    /\ errs' = Append(errs, error)
    /\ IF IsLastAttempt(attempt, finalConfig.maxAttempts)
         THEN \* break; throw lastError
              /\ rpc' = "done"
              /\ rresult' = Rejected(error)
              /\ UNCHANGED <<onRetryCalls, sleeps>>
         ELSE IF GivesUp(finalConfig, error)
         THEN \* throw error
              /\ rpc' = "done"
              /\ rresult' = Rejected(error)
              /\ UNCHANGED <<onRetryCalls, sleeps>>
         ELSE LET delayMs == calculateDelay(attempt, finalConfig.initialDelayMs,
                                 finalConfig.maxDelayMs,
                                 finalConfig.backoffMultiplier)
              IN  /\ onRetryCalls' = IF finalConfig.hasOnRetry
                        THEN Append(onRetryCalls,
                                    OnRetryArgs(attempt, error, delayMs))
                        ELSE onRetryCalls
                  /\ sleeps' = Append(sleeps, delayMs)
                  /\ rpc' = "sleep"
                  /\ rresult' = rresult

\* operation() rejected: its error carries the number of the call that made it
OperationRejects ==
    /\ UNCHANGED NotRetry
    /\ rpc = "await"
    /\ \E e \in OperationErrors : RetryCatch([e EXCEPT !.id = calls])
    /\ UNCHANGED <<finalConfig, attempt, calls, isCancelledNow, cancelSetAt>>

\* The user cancels while the call is in progress: the caller's cancellation
\* predicate, if the call was given one, turns true; the calls of cleanText
\* and applyInstructionToText belong to a session but are given none
CancelRequested ==
    /\ UNCHANGED NotRetry
    /\ rpc \in {"start", "await", "sleep"}
    /\ finalConfig.hasIsCancelled \/ finalConfig = createAPIRetryConfig
    /\ cancelSetAt = NeverCancelled
    /\ ~isCancelledNow
    /\ isCancelledNow' = finalConfig.hasIsCancelled
    /\ cancelSetAt' = [calls |-> calls, rpc |-> rpc]
    /\ UNCHANGED <<finalConfig, rpc, attempt, lastError, calls, errs,
                   onRetryCalls, sleeps, rresult>>

NextRetry ==
    \/ RetryAttempt
    \/ OperationResolves
    \/ OperationRejects
    \/ CancelRequested

SpecRetry == InitRetry /\ [][NextRetry]_vars

(***************************************************************************)
(* Properties of withRetry                                                 *)
(***************************************************************************)
RetryDone == rpc = "done"

\* withRetry ended by its own isCancelled() throw (no operation error has id 0)
StoppedByCancel ==
    /\ RetryDone
    /\ rresult.kind = "rejected"
    /\ rresult.error.id = 0

AllFailuresRetryable ==
    /\ Len(errs) = calls
    /\ \A i \in 1..Len(errs) : shouldRetry(finalConfig, errs[i])

\* C3: with maxAttempts = N and an operation that always fails with a
\* retryable error, the operation is invoked exactly N times and withRetry
\* rejects with exactly the error of the Nth attempt, not a wrapper.
C3_ExhaustionRaisesNthError ==
    (RetryDone /\ rresult.kind = "rejected" /\ ~StoppedByCancel
        /\ AllFailuresRetryable)
    => /\ calls = finalConfig.maxAttempts
       /\ rresult.error = errs[finalConfig.maxAttempts]
       /\ rresult.error.id = finalConfig.maxAttempts

C3_Witness ==
    /\ RetryDone
    /\ finalConfig.maxAttempts = 3
    /\ calls = 3
    /\ AllFailuresRetryable
    /\ rresult = Rejected(errs[3])

\* C4: when the operation fails with an error for which shouldRetry is false
\* (default or custom predicate), it is invoked exactly once, whatever
\* maxAttempts is, and withRetry rejects with that same error.
C4_NonRetryableInvokedOnce ==
    (RetryDone /\ errs # <<>> /\ ~shouldRetry(finalConfig, errs[1]))
    => /\ calls = 1
       /\ rresult = Rejected(errs[1])
       /\ rresult.error.id = 1

C4_Witness ==
    /\ RetryDone
    /\ finalConfig.maxAttempts > 1
    /\ finalConfig.shouldRetry = "messageIncludesNetwork"
    /\ errs # <<>>
    /\ errs[1].message = "Custom error"
    /\ calls = 1
    /\ rresult = Rejected(errs[1])

\* C5: isCancelled() is checked before every attempt, the first included: once
\* it is true the operation is not invoked again, and when it turns true
\* before an attempt (at the call, or between a failure and the next attempt)
\* withRetry rejects with an error whose message indicates cancellation.
C5_CancelCheckedBeforeEachAttempt ==
    /\ isCancelledNow => calls = cancelSetAt.calls
    /\ (RetryDone /\ isCancelledNow /\ cancelSetAt.rpc \in {"start", "sleep"})
       => /\ rresult.kind = "rejected"
          /\ rresult.error.message = "Operation cancelled by user"

C5_Witness ==
    /\ RetryDone
    /\ cancelSetAt = [calls |-> 1, rpc |-> "sleep"]
    /\ calls = 1
    /\ rresult.kind = "rejected"
    /\ rresult.error.message = "Operation cancelled by user"

\* C6: when withRetry stops because isCancelled() is true, the error it raises
\* is a CancelledError: isCancelledError is true for it and isRetryableError is
\* false for it.
C6_CancelRaisesCancelledError ==
    StoppedByCancel
    => /\ isCancelledError(rresult.error)
       /\ ~isRetryableError(rresult.error)

\* The geometric series of the specification, capped at maxDelayMs
ExpectedDelay(i) ==
    Min(finalConfig.initialDelayMs * Pow(finalConfig.backoffMultiplier, i - 1),
        finalConfig.maxDelayMs)

ExampleDelays == <<1000, 2000, 4000, 8000, 10000, 10000>>

\* C7: the delay waited (and passed to onRetry) after failed attempt i is
\* min(initialDelayMs * backoffMultiplier^(i-1), maxDelayMs) for every
\* i < maxAttempts; initial=1000, multiplier=2, max=10000 gives
\* 1000, 2000, 4000, 8000, 10000, 10000.
C7_BackoffDelays ==
    /\ Len(sleeps) < finalConfig.maxAttempts
    /\ \A i \in 1..Len(sleeps) : sleeps[i] = ExpectedDelay(i)
    /\ \A i \in 1..Len(onRetryCalls) : onRetryCalls[i][3] = ExpectedDelay(i)
    /\ (finalConfig.initialDelayMs = 1000 /\ finalConfig.backoffMultiplier = 2
            /\ finalConfig.maxDelayMs = 10000)
       => \A i \in 1..Len(sleeps) :
              i <= Len(ExampleDelays) => sleeps[i] = ExampleDelays[i]

C7_Witness ==
    /\ finalConfig.maxAttempts = 7
    /\ finalConfig.hasOnRetry
    /\ sleeps = ExampleDelays
    /\ Len(onRetryCalls) = 6
    /\ onRetryCalls[6][3] = 10000

\* C8: the operation is never invoked more than maxAttempts times; when
\* attempt k succeeds withRetry returns that attempt's value, the operation was
\* invoked exactly k times and onRetry was called exactly k-1 times, the i-th
\* time with (i, the error of attempt i, the delay waited after attempt i).
C8_AttemptsBoundedAndSuccessReturned ==
    /\ calls <= finalConfig.maxAttempts
    /\ (RetryDone /\ rresult.kind = "resolved")
       => /\ rresult.value = calls
          /\ attempt = calls
          /\ Len(errs) = calls - 1
          /\ Len(sleeps) = calls - 1
          /\ finalConfig.hasOnRetry
             => /\ Len(onRetryCalls) = calls - 1
                /\ \A i \in 1..Len(onRetryCalls) :
                      /\ onRetryCalls[i] = <<i, errs[i], sleeps[i]>>
                      /\ errs[i].id = i

C8_Witness ==
    /\ RetryDone
    /\ rresult = Resolved(3)
    /\ calls = 3
    /\ finalConfig.hasOnRetry
    /\ Len(onRetryCalls) = 2
    /\ onRetryCalls[2] = <<2, errs[2], 2000>>


(***************************************************************************)
(* TimeoutGuard (utils/timeout.ts)                                         *)
(***************************************************************************)
TRANSCRIPTION_TIMEOUT_MS == 30000
GPT_CLEAN_TIMEOUT_MS == 15000
GPT_EDIT_TIMEOUT_MS == 20000
PASTE_TIMEOUT_MS == 2000
CLIPBOARD_TIMEOUT_MS == 2000
TEST_TIMEOUT_MS == 200

\* The (operationName, timeoutMs) pairs withTimeout is called with
TimeoutCallSites ==
    { <<"gpt-clean-text", GPT_CLEAN_TIMEOUT_MS>>,
      <<"gpt-edit-text", GPT_EDIT_TIMEOUT_MS>>,
      <<"clipboard-paste", PASTE_TIMEOUT_MS>>,
      <<"clipboard-copy", CLIPBOARD_TIMEOUT_MS>>,
      <<"whisperTranscription", TRANSCRIPTION_TIMEOUT_MS>>,
      <<"testOp", TEST_TIMEOUT_MS>> }

\* The values the wrapped operation resolves with
OperationValues == 1..MaxValue

InitTimeout ==
    /\ RetryDormant
    /\ SessionDormant
    /\ ErrorsDormant
    /\ tpc = "start"
    /\ \E site \in TimeoutCallSites :
          /\ operationName = site[1]
          /\ timeoutMs = site[2]
    /\ timeoutHandle = "none"
    /\ isTimedOut = FALSE
    /\ opSettled = Pending
    /\ tresult = Pending

\* The finally block: clearTimeout unless the timer already fired
TimeoutFinally_NoClear(handle, timedOut) == handle

TimeoutFinally(handle, timedOut) ==
    IF handle # "none" /\ ~timedOut THEN "cleared" ELSE handle

\* The call itself: the deadline timer is created, then operation() is
\* invoked and returns a promise
TimeoutCall ==
    /\ UNCHANGED NotTimeout
    /\ tpc = "start"
    /\ tpc' = "racing"
    /\ timeoutHandle' = "pending"
    /\ UNCHANGED <<operationName, timeoutMs, isTimedOut, opSettled, tresult>>

\* An exception raised inside the try block: there is no catch clause, so it
\* leaves withTimeout as the rejection of its promise
Rethrow_AsTimeout(e) == Rejected(createTimeoutError(operationName, timeoutMs))

Rethrow(e) == Rejected(e)

\* The call itself when operation() throws synchronously: Promise.race is never
\* reached, the finally block runs and the exception leaves withTimeout
TimeoutCallThrows ==
    /\ UNCHANGED NotTimeout
    /\ tpc = "start"
    /\ \E e \in OperationErrors :
          /\ opSettled' = Rejected(e)
          /\ tresult' = Rethrow(e)
    /\ timeoutHandle' = TimeoutFinally("pending", isTimedOut)
    /\ tpc' = "threw"
    /\ UNCHANGED <<operationName, timeoutMs, isTimedOut>>

\* What Promise.race([operation(), timeoutPromise]) settles with when the
\* operation settles: nothing changes once the race is decided
RaceOnSettle_LastWins(current, settled) == settled

RaceOnSettle(current, settled) ==
    IF current.kind = "pending" THEN settled ELSE current

\* The promise of operation() settles; while the race is open withTimeout
\* returns or rethrows and its finally block runs
OperationSettles ==
    /\ UNCHANGED NotTimeout
    /\ tpc \in {"racing", "done"}
    /\ opSettled.kind = "pending"
    /\ \E s \in {Resolved(v) : v \in OperationValues}
                \cup {Rejected(e) : e \in OperationErrors} :
          /\ opSettled' = s
          /\ tresult' = RaceOnSettle(tresult, s)
    /\ IF tpc = "racing"
         THEN /\ tpc' = "done"
              /\ timeoutHandle' = TimeoutFinally(timeoutHandle, isTimedOut)
         ELSE UNCHANGED <<tpc, timeoutHandle>>
    /\ UNCHANGED <<operationName, timeoutMs, isTimedOut>>

\* The setTimeout callback: isTimedOut = true; reject(createTimeoutError(...)).
\* While the race is open withTimeout rethrows and its finally block runs
TimerFires ==
    /\ UNCHANGED NotTimeout
    /\ timeoutHandle = "pending"
    /\ isTimedOut' = TRUE
    /\ tresult' = RaceOnSettle(tresult,
                     Rejected(createTimeoutError(operationName, timeoutMs)))
    /\ IF tpc = "racing"
         THEN /\ tpc' = "done"
              /\ timeoutHandle' = TimeoutFinally("fired", TRUE)
         ELSE /\ timeoutHandle' = "fired"
              /\ UNCHANGED tpc
    /\ UNCHANGED <<operationName, timeoutMs, opSettled>>

NextTimeout ==
    \/ TimeoutCall
    \/ TimeoutCallThrows
    \/ OperationSettles
    \/ TimerFires

SpecTimeout == InitTimeout /\ [][NextTimeout]_vars

(***************************************************************************)
(* Properties of withTimeout                                               *)
(***************************************************************************)
\* C9: if the operation has not settled when the deadline fires, withTimeout
\* rejects with a TIMEOUT-category, retryable error that names the operation
\* and the duration, and a later resolution or rejection of the operation
\* never changes that outcome.
C9_DeadlineFirstRejectsWithTimeout ==
    isTimedOut
    => /\ tpc = "done"
       /\ tresult.kind = "rejected"
       /\ tresult.error.kind = "SmartSTTError"
       /\ tresult.error.category = "timeout"
       /\ tresult.error.canRetry
       /\ tresult.error.operation = operationName
       /\ tresult.error.timeoutMs = timeoutMs

C9_Witness ==
    /\ isTimedOut
    /\ opSettled.kind = "resolved"
    /\ operationName = "clipboard-paste"
    /\ tresult.kind = "rejected"
    /\ tresult.error.category = "timeout"
    /\ tresult.error.timeoutMs = PASTE_TIMEOUT_MS

\* C10: if the operation settles (resolves or rejects) before the deadline,
\* withTimeout settles with the operation's own value or error and the deadline
\* timer is cleared: no timer created by the call is pending after it returns.
C10_SettledFirstClearsTimer ==
    /\ tpc \in {"done", "threw"} => timeoutHandle # "pending"
    /\ (tpc = "done" /\ ~isTimedOut)
       => /\ timeoutHandle = "cleared"
          /\ opSettled.kind # "pending"
          /\ tresult = opSettled

C10_Witness ==
    /\ tpc = "done"
    /\ ~isTimedOut
    /\ opSettled.kind = "resolved"
    /\ tresult = opSettled
    /\ timeoutHandle = "cleared"

\* C11: an error that operation() throws synchronously leaves withTimeout
\* unchanged as the rejection of its promise: it is never replaced by a
\* TIMEOUT error, and the deadline timer is cleared without having fired.
C11_SyncThrowPropagatesUnchanged ==
    tpc = "threw"
    => /\ opSettled.kind = "rejected"
       /\ tresult = opSettled
       /\ tresult.error \in OperationErrors
       /\ tresult.error.category # "timeout"
       /\ ~isTimedOut
       /\ timeoutHandle = "cleared"

C11_Witness ==
    /\ tpc = "threw"
    /\ operationName = "testOp"
    /\ timeoutMs = TEST_TIMEOUT_MS
    /\ tresult = Rejected(PlainError("Custom error"))


(***************************************************************************)
(* Session controller (main.ts) with the dictation and edit pipelines      *)
(***************************************************************************)
\* String.prototype.trim on the texts of the model
Trim(text) == IF text = " " THEN "" ELSE text

\* The text the focused application puts on the clipboard on Ctrl+C
Selections == {"", "sel"}

RemoveAt(seq, i) == [j \in 1..(Len(seq) - 1) |-> IF j < i THEN seq[j] ELSE seq[j + 1]]

ToggleMsg(recording, mode) ==
    [type |-> "recording-toggle", recording |-> recording, mode |-> mode]
CancelMsg_AsToggle(mode) == ToggleMsg(FALSE, mode)

CancelMsg(mode) ==
    [type |-> "recording-cancel", recording |-> FALSE, mode |-> mode]
EditWarningMsg ==
    [type |-> "edit-warning", recording |-> FALSE, mode |-> "edit"]

InitSession ==
    /\ RetryDormant
    /\ TimeoutDormant
    /\ ErrorsDormant
    /\ overlay = OverlayReady
    /\ isRecording = FALSE
    /\ isProcessing = FALSE
    /\ recordingMode = "dictation"
    /\ pendingEditText = Null
    /\ cancelInProgress = FALSE
    /\ cancelTimers = 0
    /\ editCaptures = <<>>
    /\ runs = [i \in 1..MaxRuns |-> FreeRun]
    /\ clipboard = "old"
    /\ overlayMsgs = <<>>

\* toggleRecording(mode), called with pendingEditText = pet
toggleRecording(mode, pet) ==
    IF cancelInProgress
      THEN /\ pendingEditText' = pet
           /\ UNCHANGED <<isRecording, recordingMode, overlayMsgs>>
      ELSE LET willStart == ~isRecording
               newMode == IF willStart THEN mode ELSE recordingMode
           IN  /\ Len(overlayMsgs) < MaxOverlayMsgs
               /\ recordingMode' = newMode
               /\ isRecording' = ~isRecording
               /\ pendingEditText' = IF willStart THEN pet ELSE Null
               /\ overlayMsgs' = Append(overlayMsgs, ToggleMsg(willStart, newMode))

\* The record hotkey: toggleRecording('dictation')
HotkeyRecord ==
    /\ UNCHANGED NotSession
    /\ toggleRecording("dictation", pendingEditText)
    /\ UNCHANGED <<isProcessing, cancelInProgress, cancelTimers, editCaptures,
                   runs, clipboard>>

RunInFlight(run) == run.pc \notin {"free", "done"}

\* The cancel hotkey: cancelRecording()
cancelRecording ==
    /\ UNCHANGED NotSession
    /\ Len(overlayMsgs) < MaxOverlayMsgs
    /\ isRecording \/ isProcessing
    /\ cancelInProgress' = TRUE
    /\ isRecording' = FALSE
    /\ isProcessing' = FALSE
    /\ pendingEditText' = Null
    /\ overlayMsgs' = Append(overlayMsgs, CancelMsg(recordingMode))
    /\ cancelTimers' = cancelTimers + 1
    /\ runs' = [i \in 1..MaxRuns |->
                  IF RunInFlight(runs[i])
                    THEN [runs[i] EXCEPT !.cancelRequested = TRUE]
                    ELSE runs[i]]
    /\ UNCHANGED <<recordingMode, editCaptures, clipboard>>

\* The cancel hotkey while neither recording nor processing: the early return
cancelRecordingIgnored ==
    /\ UNCHANGED NotSession
    /\ ~isRecording /\ ~isProcessing
    /\ UNCHANGED svars

\* setTimeout(() => { cancelInProgress = false }, 50)
CancelTimerFires ==
    /\ UNCHANGED NotSession
    /\ cancelTimers > 0
    /\ cancelTimers' = cancelTimers - 1
    /\ cancelInProgress' = FALSE
    /\ UNCHANGED <<isRecording, isProcessing, recordingMode, pendingEditText,
                   editCaptures, runs, clipboard, overlayMsgs>>

\* The finally block of captureSelectedOrClipboardText:
\* clipboard.writeText(previousClipboard)
RestoredClipboard_Skipped(previousClipboard) == clipboard

RestoredClipboard(previousClipboard) == previousClipboard

\* The edit hotkey: startEditMode() up to the await inside
\* captureSelectedOrClipboardText (readText, clear, simulateCopy started)
startEditMode ==
    /\ UNCHANGED NotSession
    /\ Len(editCaptures) < MaxPending
    /\ editCaptures' = Append(editCaptures,
                          [pc |-> "copying", previousClipboard |-> clipboard])
    /\ clipboard' = ""
    /\ UNCHANGED <<isRecording, isProcessing, recordingMode, pendingEditText,
                   cancelInProgress, cancelTimers, runs, overlayMsgs>>

\* simulateCopy resolved within its timeout: the application has put its
\* selection (if any) on the clipboard; delay(180) starts
EditCopyResolves ==
    /\ UNCHANGED NotSession
    /\ \E i \in 1..Len(editCaptures) :
          /\ editCaptures[i].pc = "copying"
          /\ \E sel \in Selections :
                clipboard' = IF sel # "" THEN sel ELSE clipboard
          /\ editCaptures' = [editCaptures EXCEPT ![i].pc = "settling"]
    /\ UNCHANGED <<isRecording, isProcessing, recordingMode, pendingEditText,
                   cancelInProgress, cancelTimers, runs, overlayMsgs>>

\* simulateCopy rejected or timed out: the finally block restores the
\* clipboard, createCopyFailureError leaves startEditMode as a rejection
EditCopyFails ==
    /\ UNCHANGED NotSession
    /\ \E i \in 1..Len(editCaptures) :
          /\ editCaptures[i].pc = "copying"
          /\ clipboard' = RestoredClipboard(editCaptures[i].previousClipboard)
          /\ editCaptures' = RemoveAt(editCaptures, i)
    /\ UNCHANGED <<isRecording, isProcessing, recordingMode, pendingEditText,
                   cancelInProgress, cancelTimers, runs, overlayMsgs>>

\* if (!text) of startEditMode
NoText_Never(text) == FALSE

NoText(text) == text = ""

\* delay(180) elapsed: the selection is read and the clipboard restored, then
\* startEditMode warns (no text) or stores pendingEditText and toggles
EditCaptureDone ==
    /\ UNCHANGED NotSession
    /\ \E i \in 1..Len(editCaptures) :
          /\ editCaptures[i].pc = "settling"
          /\ clipboard' = RestoredClipboard(editCaptures[i].previousClipboard)
          /\ editCaptures' = RemoveAt(editCaptures, i)
          /\ LET text == Trim(clipboard) IN
             IF NoText(text)
               THEN /\ Len(overlayMsgs) < MaxOverlayMsgs
                    /\ overlayMsgs' = Append(overlayMsgs, EditWarningMsg)
                    /\ UNCHANGED <<isRecording, recordingMode, pendingEditText>>
               ELSE toggleRecording("edit", text)
    /\ UNCHANGED <<isProcessing, cancelInProgress, cancelTimers, runs>>

\* A recording-toggle message that stops the overlay's recorder
IsStopMsg(msg) == msg.type = "recording-toggle" /\ ~msg.recording

\* The overlay handles the message at the head of its channel without
\* invoking the main process: the recorder starts, a cancel or a warning is
\* shown, or a stopped recorder's onstop has nothing to process (empty blob,
\* skipProcessing, no recorder)
OverlayHandlesMsg ==
    /\ UNCHANGED NotSession
    /\ overlayMsgs # <<>>
    /\ overlayMsgs' = Tail(overlayMsgs)
    /\ UNCHANGED <<isRecording, isProcessing, recordingMode, pendingEditText,
                   cancelInProgress, cancelTimers, editCaptures, runs,
                   clipboard>>

(***************************************************************************)
(* process-audio / process-edit handlers and the two pipelines             *)
(***************************************************************************)
\* return { ok: true, text }
OkResult(text) == [NoResult EXCEPT !.ok = TRUE, !.text = text, !.set = TRUE]

\* return { ok: false, error: 'Cancelado', cancelled: true }
CancelledResult ==
    [NoResult EXCEPT !.error = "Cancelado", !.cancelled = TRUE, !.set = TRUE]

\* The catch block of the process-audio and process-edit handlers; an error
\* without category and userMessage is reported by its message (composed
\* from status, code and message for an APIError)
HandlerCatch(error) ==
    IF error.kind = "SmartSTTError"
      THEN IF error.category = "clipboard"
             THEN [NoResult EXCEPT !.ok = TRUE, !.warning = error.userMessage,
                                   !.category = error.category, !.set = TRUE]
             ELSE [NoResult EXCEPT !.error = error.userMessage,
                                   !.category = error.category,
                                   !.canRetry = IF error.canRetry THEN "true"
                                                                  ELSE "false",
                                   !.set = TRUE]
      ELSE [NoResult EXCEPT !.error = error.message, !.set = TRUE]

\* After handleDictationAudio / handleEditAudio returned text
HandlerReturn(text) ==
    IF cancelInProgress THEN CancelledResult ELSE OkResult(text)

\* shouldCancel?.() inside the pipelines: what the callback returns now, false
\* when there is none (the handlers of main.ts call handleDictationAudio and
\* handleEditAudio without a shouldCancel argument)
shouldCancel(run) == run.shouldCancel

\* A handler call as it starts
NewRun(mode) ==
    [FreeRun EXCEPT !.mode = mode, !.pc = "start",
                    !.clipboardAtStart = clipboard]

\* What the services answer
Transcripts == {" ", "raw"}
FinalTexts == <<"final1", "final2", "final3">>
CleanedTexts(i) == {"", FinalTexts[i]}
EditedTexts(i) == {"", FinalTexts[i]}

\* store.get('apiKey') when a handler starts
ApiKeys == {"", "sk-key"}

\* What transcribeAudio rethrows (the raw service error)
TranscribeErrors == {APIError(401), PlainError("Network error")}

\* What cleanText throws: categorizeAPIError of what withRetry raised
CleanErrors ==
    { categorizeAPIError(APIError(429)),
      categorizeAPIError(createTimeoutError("gpt-clean-text", GPT_CLEAN_TIMEOUT_MS)) }

\* What applyInstructionToText throws
EditErrors ==
    { categorizeAPIError(APIError(500)),
      categorizeAPIError(createTimeoutError("gpt-edit-text", GPT_EDIT_TIMEOUT_MS)) }

\* The slot the next handler call takes
FreeSlot ==
    CHOOSE k \in 1..MaxRuns :
       /\ runs[k].pc = "free"
       /\ \A j \in 1..(k - 1) : runs[j].pc # "free"

\* pendingEditText = null on every exit of process-edit (process-audio leaves
\* it alone)
PendingEditTextAfter_Kept(mode) == pendingEditText

PendingEditTextAfter(mode) == IF mode = "edit" THEN Null ELSE pendingEditText

\* The pipeline ends, throwing error or (NoError) returning its final text;
\* called by a handler, the handler returns its result to the overlay
Report(i, run, error, clip) ==
    IF run.caller = "handler"
      THEN /\ runs' = [runs EXCEPT ![i] =
                        [run EXCEPT !.pc = "done", !.thrown = error,
                                    !.result = IF error = NoError
                                                 THEN HandlerReturn(run.finalText)
                                                 ELSE HandlerCatch(error),
                                    !.clipboardAtReport = clip]]
           /\ isProcessing' = FALSE
           /\ pendingEditText' = PendingEditTextAfter(run.mode)
      ELSE /\ runs' = [runs EXCEPT ![i] =
                        [run EXCEPT !.pc = "done", !.thrown = error,
                                    !.clipboardAtReport = clip]]
           /\ UNCHANGED <<isProcessing, pendingEditText>>

\* The run goes on to its next await
Continue(i, run, pc) ==
    /\ runs' = [runs EXCEPT ![i] = [run EXCEPT !.pc = pc]]
    /\ UNCHANGED <<isProcessing, pendingEditText>>

\* if (!instruction) / if (!editedText)
IsEmptyText_Never(text) == FALSE

IsEmptyText(text) == text = ""

\* The stage a pipeline starts, and awaits, after the transcription
StageAfterTranscribe_AlwaysEdit(mode) == "edit"

StageAfterTranscribe(mode) == IF mode = "dictation" THEN "clean" ELSE "edit"

\* The position of a run that awaits a stage
AwaitOf(stage) == IF stage = "clean" THEN "cleaning" ELSE "editing"

\* The run starts a stage (history of the stages it has started)
Started(run, stage) == [run EXCEPT !.stages = Append(@, stage)]

\* ipcMain.handle('process-audio'), invoked by the onstop handler of the
\* recorder that the message at the head of the channel stopped: from its
\* start to the first await of handleDictationAudio (the transcription)
ProcessAudioStart ==
    /\ UNCHANGED NotSession
    /\ overlayMsgs # <<>>
    /\ IsStopMsg(Head(overlayMsgs))
    /\ Head(overlayMsgs).mode = "dictation"
    /\ \E k \in 1..MaxRuns : runs[k].pc = "free"
    /\ overlayMsgs' = Tail(overlayMsgs)
    /\ \E apiKey \in ApiKeys :
       LET i == FreeSlot
           run == [NewRun("dictation") EXCEPT !.apiKey = apiKey]
       IN  IF apiKey = ""
             THEN /\ runs' = [runs EXCEPT ![i] =
                       [run EXCEPT !.pc = "done", !.clipboardAtReport = clipboard,
                          !.result = HandlerCatch(PlainError(
                             "Configure a chave da OpenAI nas configuracoes."))]]
                  /\ isProcessing' = FALSE
           ELSE IF cancelInProgress
             THEN /\ runs' = [runs EXCEPT ![i] =
                       [run EXCEPT !.pc = "done", !.clipboardAtReport = clipboard,
                                   !.result = CancelledResult]]
                  /\ isProcessing' = FALSE
           ELSE IF shouldCancel(run)
             THEN /\ runs' = [runs EXCEPT ![i] =
                       [run EXCEPT !.pc = "done", !.clipboardAtReport = clipboard,
                                   !.thrown = CancelledError,
                                   !.result = HandlerCatch(CancelledError)]]
                  /\ isProcessing' = FALSE
           ELSE /\ runs' = [runs EXCEPT ![i] =
                       [Started(run, "transcribe") EXCEPT !.pc = "transcribing"]]
                /\ isProcessing' = TRUE
    /\ UNCHANGED <<isRecording, recordingMode, pendingEditText,
                   cancelInProgress, cancelTimers, editCaptures, clipboard>>

\* ipcMain.handle('process-edit'), invoked like process-audio by the recorder
\* the head message stopped: from its start to the first await of
\* handleEditAudio (the fallback capture's simulateCopy, or the transcription)
ProcessEditStart ==
    /\ UNCHANGED NotSession
    /\ overlayMsgs # <<>>
    /\ IsStopMsg(Head(overlayMsgs))
    /\ Head(overlayMsgs).mode = "edit"
    /\ \E k \in 1..MaxRuns : runs[k].pc = "free"
    /\ overlayMsgs' = Tail(overlayMsgs)
    /\ \E apiKey \in ApiKeys :
       LET i == FreeSlot
           run == [NewRun("edit") EXCEPT !.apiKey = apiKey]
       IN  IF apiKey = ""
             THEN /\ runs' = [runs EXCEPT ![i] =
                       [run EXCEPT !.pc = "done", !.clipboardAtReport = clipboard,
                          !.result = HandlerCatch(PlainError(
                             "Configure a chave da OpenAI nas configuracoes."))]]
                  /\ isProcessing' = FALSE
                  /\ pendingEditText' = Null
                  /\ UNCHANGED clipboard
           ELSE IF cancelInProgress
             THEN /\ runs' = [runs EXCEPT ![i] =
                       [run EXCEPT !.pc = "done", !.clipboardAtReport = clipboard,
                                   !.result = CancelledResult]]
                  /\ isProcessing' = FALSE
                  /\ pendingEditText' = Null
                  /\ UNCHANGED clipboard
           ELSE IF shouldCancel(run)
             THEN /\ runs' = [runs EXCEPT ![i] =
                       [run EXCEPT !.pc = "done", !.clipboardAtReport = clipboard,
                                   !.thrown = CancelledError,
                                   !.result = HandlerCatch(CancelledError)]]
                  /\ isProcessing' = FALSE
                  /\ pendingEditText' = Null
                  /\ UNCHANGED clipboard
           ELSE IF pendingEditText = Null
             THEN \* captureSelectedOrClipboardText: readText, clear, simulateCopy
                  /\ runs' = [runs EXCEPT ![i] =
                       [Started(run, "capture") EXCEPT
                                   !.pc = "copying",
                                   !.previousClipboard = clipboard,
                                   !.clipboardWrites = 1]]
                  /\ clipboard' = ""
                  /\ isProcessing' = TRUE
                  /\ UNCHANGED pendingEditText
           ELSE /\ runs' = [runs EXCEPT ![i] =
                       [Started(run, "transcribe") EXCEPT
                                   !.pc = "transcribing",
                                   !.baseText = pendingEditText]]
                /\ isProcessing' = TRUE
                /\ UNCHANGED <<pendingEditText, clipboard>>
    /\ UNCHANGED <<isRecording, recordingMode, cancelInProgress,
                   cancelTimers, editCaptures>>

\* Fallback capture of handleEditAudio: simulateCopy resolved, delay(180) starts
RunCopyResolves ==
    /\ UNCHANGED NotSession
    /\ \E i \in 1..MaxRuns :
          /\ runs[i].pc = "copying"
          /\ \E sel \in Selections :
                clipboard' = IF sel # "" THEN sel ELSE clipboard
          /\ Continue(i, runs[i], "settling")
    /\ UNCHANGED <<isRecording, recordingMode, cancelInProgress,
                   cancelTimers, editCaptures, overlayMsgs>>

\* Fallback capture: simulateCopy rejected or timed out; the clipboard is
\* restored and createCopyFailureError reaches the handler's catch block
RunCopyFails ==
    /\ UNCHANGED NotSession
    /\ \E i \in 1..MaxRuns :
          /\ runs[i].pc = "copying"
          /\ clipboard' = RestoredClipboard(runs[i].previousClipboard)
          /\ Report(i, [runs[i] EXCEPT !.clipboardWrites = @ + 1,
                                        !.previousClipboard = ""],
                    createCopyFailureError,
                    runs[i].previousClipboard)
    /\ UNCHANGED <<isRecording, recordingMode, cancelInProgress,
                   cancelTimers, editCaptures, overlayMsgs>>

\* Fallback capture: delay(180) elapsed; the selection is read, the clipboard
\* restored, and handleEditAudio goes on to the transcription or fails
RunCaptureDone ==
    /\ UNCHANGED NotSession
    /\ \E i \in 1..MaxRuns :
          /\ runs[i].pc = "settling"
          /\ clipboard' = RestoredClipboard(runs[i].previousClipboard)
          /\ LET text == Trim(clipboard)
                 run == [runs[i] EXCEPT !.clipboardWrites = @ + 1,
                                        !.previousClipboard = ""]
             IN  IF Trim(text) # ""
                   THEN Continue(i, Started([run EXCEPT !.baseText = text],
                                            "transcribe"), "transcribing")
                   ELSE Report(i, run, createEditNoTextError,
                               runs[i].previousClipboard)
    /\ UNCHANGED <<isRecording, recordingMode, cancelInProgress,
                   cancelTimers, editCaptures, overlayMsgs>>

\* transcribeAudio with an empty buffer: throw new Error('Audio vazio')
EmptyAudioThrown == PlainError("Audio vazio")

\* transcribeAudio settled: the pipeline goes on to cleanText (dictation) or
\* to applyInstructionToText (edit), or the error reaches the catch block
TranscribeSettles ==
    /\ UNCHANGED NotSession
    /\ \E i \in 1..MaxRuns :
          /\ runs[i].pc = "transcribing"
          /\ \/ /\ runs[i].bufferLength = 0
                /\ Report(i, runs[i], EmptyAudioThrown, clipboard)
             \/ \E rawText \in Transcripts :
                  LET called == [runs[i] EXCEPT !.sttCalls = @ + 1]
                      run == IF called.mode = "edit"
                               THEN [called EXCEPT !.instruction = Trim(rawText)]
                               ELSE called
                  IN  /\ runs[i].bufferLength > 0
                      /\ IF shouldCancel(run)
                            THEN Report(i, run, CancelledError, clipboard)
                          ELSE IF run.mode = "edit"
                                  /\ IsEmptyText(run.instruction)
                            THEN Report(i, run, createEditEmptyInstructionError,
                                        clipboard)
                          ELSE LET stage == StageAfterTranscribe(run.mode)
                               IN  Continue(i, Started(run, stage),
                                            AwaitOf(stage))
             \/ \E e \in TranscribeErrors :
                  /\ runs[i].bufferLength > 0
                  /\ Report(i, [runs[i] EXCEPT !.sttCalls = @ + 1], e, clipboard)
    /\ UNCHANGED <<isRecording, recordingMode, cancelInProgress,
                   cancelTimers, editCaptures, clipboard, overlayMsgs>>

\* clipboard.writeText(finalText), the cancellation check after it, and the
\* start of withTimeout(simulatePaste)
WriteAndPaste(i, run0, finalText) ==
    LET run == [Started(run0, "write") EXCEPT !.finalText = finalText,
                                              !.clipboardWrites = @ + 1]
    IN  /\ clipboard' = finalText
        /\ IF shouldCancel(run)
             THEN Report(i, run, CancelledError, finalText)
             ELSE Continue(i, [Started(run, "paste") EXCEPT !.pastes = @ + 1],
                           "pasting")

\* cleanText settled (dictation)
CleanSettles ==
    /\ UNCHANGED NotSession
    /\ \E i \in 1..MaxRuns :
          /\ runs[i].pc = "cleaning"
          /\ \/ \E cleanedText \in CleanedTexts(i) :
                  IF shouldCancel(runs[i])
                    THEN /\ Report(i, runs[i], CancelledError,
                                   clipboard)
                         /\ UNCHANGED clipboard
                    ELSE WriteAndPaste(i, runs[i], cleanedText)
             \/ \E e \in CleanErrors :
                  /\ Report(i, runs[i], e, clipboard)
                  /\ UNCHANGED clipboard
    /\ UNCHANGED <<isRecording, recordingMode, cancelInProgress,
                   cancelTimers, editCaptures, overlayMsgs>>

\* applyInstructionToText settled (edit)
EditSettles ==
    /\ UNCHANGED NotSession
    /\ \E i \in 1..MaxRuns :
          /\ runs[i].pc = "editing"
          /\ \/ \E editedText \in EditedTexts(i) :
                  LET run == [runs[i] EXCEPT !.editedText = editedText]
                  IN  IF shouldCancel(run)
                        THEN /\ Report(i, run, CancelledError, clipboard)
                             /\ UNCHANGED clipboard
                      ELSE IF IsEmptyText(run.editedText)
                        THEN /\ Report(i, run, createEditEmptyResultError,
                                       clipboard)
                             /\ UNCHANGED clipboard
                      ELSE WriteAndPaste(i, run, editedText)
             \/ \E e \in EditErrors :
                  /\ Report(i, runs[i], e, clipboard)
                  /\ UNCHANGED clipboard
    /\ UNCHANGED <<isRecording, recordingMode, cancelInProgress,
                   cancelTimers, editCaptures, overlayMsgs>>

\* simulatePaste resolved within its timeout: the pipeline returns the final
\* text and the handler reports
PasteResolves ==
    /\ UNCHANGED NotSession
    /\ \E i \in 1..MaxRuns :
          /\ runs[i].pc = "pasting"
          /\ Report(i, runs[i], NoError, clipboard)
    /\ UNCHANGED <<isRecording, recordingMode, cancelInProgress,
                   cancelTimers, editCaptures, clipboard, overlayMsgs>>

\* What the pipeline throws when simulatePaste rejected or timed out
PasteFailure == createPasteFailureError

\* simulatePaste rejected or exceeded PASTE_TIMEOUT_MS / CLIPBOARD_TIMEOUT_MS
PasteFails ==
    /\ UNCHANGED NotSession
    /\ \E i \in 1..MaxRuns :
          /\ runs[i].pc = "pasting"
          /\ Report(i, [runs[i] EXCEPT !.pasteFailed = TRUE],
                    PasteFailure, clipboard)
    /\ UNCHANGED <<isRecording, recordingMode, cancelInProgress,
                   cancelTimers, editCaptures, clipboard, overlayMsgs>>

\* The overlay's onstop continuation receives the result of its invoke
OverlayGetsResult ==
    /\ UNCHANGED NotSession
    /\ \E i \in 1..MaxRuns :
          /\ runs[i].pc = "done"
          /\ runs' = [runs EXCEPT ![i] = FreeRun]
    /\ UNCHANGED <<isRecording, isProcessing, recordingMode,
                   pendingEditText, cancelInProgress, cancelTimers,
                   editCaptures, clipboard, overlayMsgs>>

Next ==
    \/ HotkeyRecord
    \/ cancelRecording
    \/ cancelRecordingIgnored
    \/ CancelTimerFires
    \/ startEditMode
    \/ EditCopyResolves
    \/ EditCopyFails
    \/ EditCaptureDone
    \/ OverlayHandlesMsg
    \/ ProcessAudioStart
    \/ ProcessEditStart
    \/ RunCopyResolves
    \/ RunCopyFails
    \/ RunCaptureDone
    \/ TranscribeSettles
    \/ CleanSettles
    \/ EditSettles
    \/ PasteResolves
    \/ PasteFails
    \/ OverlayGetsResult

Spec == InitSession /\ [][Next]_vars

(***************************************************************************)
(* One session at a time: the record and edit hotkeys are pressed only     *)
(* while no capture is pending, no stopped recording waits for its handler *)
(* and no run is in flight or waits for the overlay to take its result.    *)
(* The cancel hotkey is free.                                              *)
(***************************************************************************)
Quiet ==
    /\ editCaptures = <<>>
    /\ \A i \in 1..MaxRuns : runs[i].pc = "free"
    /\ \A k \in 1..Len(overlayMsgs) : ~IsStopMsg(overlayMsgs[k])

SoloHotkeyRecord == Quiet /\ HotkeyRecord

SoloStartEditMode == Quiet /\ startEditMode

NextSolo ==
    \/ SoloHotkeyRecord
    \/ cancelRecording
    \/ cancelRecordingIgnored
    \/ CancelTimerFires
    \/ SoloStartEditMode
    \/ EditCopyResolves
    \/ EditCopyFails
    \/ EditCaptureDone
    \/ OverlayHandlesMsg
    \/ ProcessAudioStart
    \/ ProcessEditStart
    \/ RunCopyResolves
    \/ RunCopyFails
    \/ RunCaptureDone
    \/ TranscribeSettles
    \/ CleanSettles
    \/ EditSettles
    \/ PasteResolves
    \/ PasteFails
    \/ OverlayGetsResult

SpecSolo == InitSession /\ [][NextSolo]_vars

\* The steps the runtime takes by itself within bounded time: timers, message
\* delivery and the handler invocation, and the awaits that a timeout and
\* the retry limit bound (withTimeout around simulateCopy and simulatePaste
\* and around each attempt of cleanText / applyInstructionToText, delay(180)).
\* Not among them: the hotkeys, and the transcription request, which
\* transcribeAudio awaits without withTimeout and without withRetry.
BoundedStep ==
    \/ CancelTimerFires
    \/ EditCopyResolves
    \/ EditCopyFails
    \/ EditCaptureDone
    \/ OverlayHandlesMsg
    \/ ProcessAudioStart
    \/ ProcessEditStart
    \/ RunCopyResolves
    \/ RunCopyFails
    \/ RunCaptureDone
    \/ CleanSettles
    \/ EditSettles
    \/ PasteResolves
    \/ PasteFails
    \/ OverlayGetsResult

\* SpecSolo with every bounded step eventually taken
SpecSoloFair == InitSession /\ [][NextSolo]_vars /\ WF_vars(BoundedStep)

(***************************************************************************)
(* One recording at a time, but the edit hotkey is also pressed while the  *)
(* run of the previous recording is in flight: startEditMode may capture,  *)
(* and start the next edit recording, before that run has ended.           *)
(***************************************************************************)
OverlapStartEditMode ==
    /\ editCaptures = <<>>
    /\ \A k \in 1..Len(overlayMsgs) : ~IsStopMsg(overlayMsgs[k])
    /\ Quiet \/ ~isRecording
    /\ startEditMode

NextOverlap ==
    \/ SoloHotkeyRecord
    \/ cancelRecording
    \/ cancelRecordingIgnored
    \/ CancelTimerFires
    \/ OverlapStartEditMode
    \/ EditCopyResolves
    \/ EditCopyFails
    \/ EditCaptureDone
    \/ OverlayHandlesMsg
    \/ ProcessAudioStart
    \/ ProcessEditStart
    \/ RunCopyResolves
    \/ RunCopyFails
    \/ RunCaptureDone
    \/ TranscribeSettles
    \/ CleanSettles
    \/ EditSettles
    \/ PasteResolves
    \/ PasteFails
    \/ OverlayGetsResult

SpecOverlap == InitSession /\ [][NextOverlap]_vars

(***************************************************************************)
(* The pipelines called directly: handleDictationAudio and handleEditAudio *)
(* with a shouldCancel callback, which may start to answer true at any     *)
(* moment of the run. The caller awaits the outcome (the text returned or  *)
(* the error thrown).                                                      *)
(***************************************************************************)
\* The pendingEditText argument of handleEditAudio
PendingBaseTexts == {Null, "sel"}

\* buffer.length of the audio passed to a pipeline
BufferLengths == {0, 1}

InitPipeline == InitSession

\* handleDictationAudio(..., shouldCancel) / handleEditAudio(...,
\* pendingEditText, shouldCancel): from the call to the first await
PipelineCall ==
    /\ UNCHANGED NotSession
    /\ \E k \in 1..MaxRuns : runs[k].pc = "free"
    /\ \E mode \in {"dictation", "edit"}, pet \in PendingBaseTexts,
          cancelled \in BOOLEAN, length \in BufferLengths :
       LET i == FreeSlot
           run == [NewRun(mode) EXCEPT !.caller = "direct",
                                       !.shouldCancel = cancelled,
                                       !.bufferLength = length]
       IN  IF shouldCancel(run)
             THEN /\ runs' = [runs EXCEPT ![i] =
                       [run EXCEPT !.pc = "done", !.thrown = CancelledError,
                                   !.clipboardAtReport = clipboard]]
                  /\ UNCHANGED clipboard
           ELSE IF mode = "edit" /\ pet = Null
             THEN /\ runs' = [runs EXCEPT ![i] =
                       [Started(run, "capture") EXCEPT
                                   !.pc = "copying",
                                   !.previousClipboard = clipboard,
                                   !.clipboardWrites = 1]]
                  /\ clipboard' = ""
           ELSE /\ runs' = [runs EXCEPT ![i] =
                       [Started(run, "transcribe") EXCEPT
                                   !.pc = "transcribing",
                                   !.baseText = IF mode = "edit" THEN pet
                                                                 ELSE Null]]
                /\ UNCHANGED clipboard
    /\ UNCHANGED <<isRecording, isProcessing, recordingMode, pendingEditText,
                   cancelInProgress, cancelTimers, editCaptures, overlayMsgs>>

\* The shouldCancel callback of a run starts to answer true
ShouldCancelTurnsTrue ==
    /\ UNCHANGED NotSession
    /\ \E i \in 1..MaxRuns :
          /\ RunInFlight(runs[i])
          /\ runs[i].caller = "direct"
          /\ ~runs[i].shouldCancel
          /\ runs' = [runs EXCEPT ![i].shouldCancel = TRUE]
    /\ UNCHANGED <<isRecording, isProcessing, recordingMode, pendingEditText,
                   cancelInProgress, cancelTimers, editCaptures, clipboard,
                   overlayMsgs>>

\* The caller's await of the pipeline settles
CallerTakesOutcome ==
    /\ UNCHANGED NotSession
    /\ \E i \in 1..MaxRuns :
          /\ runs[i].pc = "done"
          /\ runs[i].caller = "direct"
          /\ runs' = [runs EXCEPT ![i] = FreeRun]
    /\ UNCHANGED <<isRecording, isProcessing, recordingMode, pendingEditText,
                   cancelInProgress, cancelTimers, editCaptures, clipboard,
                   overlayMsgs>>

NextPipeline ==
    \/ PipelineCall
    \/ ShouldCancelTurnsTrue
    \/ CallerTakesOutcome
    \/ RunCopyResolves
    \/ RunCopyFails
    \/ RunCaptureDone
    \/ TranscribeSettles
    \/ CleanSettles
    \/ EditSettles
    \/ PasteResolves
    \/ PasteFails

SpecPipeline == InitPipeline /\ [][NextPipeline]_vars

(***************************************************************************)
(* The error helpers applied to a caught value: categorizeAPIError(error)  *)
(* and isRetryableError(error).                                            *)
(***************************************************************************)
\* HTTP status of an APIError; 0 stands for no status
Statuses == 0..MaxStatus

\* What every factory function of errors.ts returns
FactoryErrors ==
    { createNetworkError, createAuthError, createRateLimitError,
      createTimeoutError("testOp", TEST_TIMEOUT_MS),
      createPasteFailureError, createCopyFailureError,
      createEmptyAudioError, createInvalidAudioError,
      createMissingApiKeyError, createEditNoTextError,
      createEditEmptyInstructionError, createEditEmptyResultError }

\* The values a catch block may hold
CaughtValues ==
    {APIError(status) : status \in Statuses}
       \cup FactoryErrors
       \cup {CancelledError, PlainError("Unknown error")}

InitErrors ==
    /\ RetryDormant
    /\ TimeoutDormant
    /\ SessionDormant
    /\ \E e \in CaughtValues :
          errorCase = [pc |-> "caught", error |-> e, categorized |-> NoError,
                       retryable |-> FALSE]

\* categorizeAPIError(error)
CategorizeCall ==
    /\ errorCase.pc = "caught"
    /\ errorCase' = [errorCase EXCEPT
                        !.pc = "categorized",
                        !.categorized = categorizeAPIError(errorCase.error)]
    /\ UNCHANGED <<rvars, tvars, svars, overlay>>

\* isRetryableError(error)
IsRetryableCall ==
    /\ errorCase.pc = "categorized"
    /\ errorCase' = [errorCase EXCEPT
                        !.pc = "decided",
                        !.retryable = isRetryableError(errorCase.error)]
    /\ UNCHANGED <<rvars, tvars, svars, overlay>>

NextErrors ==
    \/ CategorizeCall
    \/ IsRetryableCall

SpecErrors == InitErrors /\ [][NextErrors]_vars

(***************************************************************************)
(* The overlay (renderer/overlay-controller.ts) with its recorder, driven  *)
(* by the record and cancel hotkeys of the main process.  The handler the  *)
(* overlay invokes is summarized by the results it can return.             *)
(***************************************************************************)
\* setState(state) showing no error
Shows(ov, state) == [ov EXCEPT !.state = state, !.category = "none"]

\* setState('error') for an error of the category
ShowsError(ov, category) ==
    [ov EXCEPT !.state = "error", !.category = category]

\* setTimeout(() => { setState('idle'); hideOverlay() }, ...)
WithTimer(ov) == [ov EXCEPT !.timers = @ + 1]

\* stopRecording(): if (!mediaRecorder) return; mediaRecorder.stop().  The
\* stop of a recording recorder queues its onstop handler.
Stopped(ov) ==
    IF ov.mediaRecorder = "recording"
      THEN [ov EXCEPT !.mediaRecorder = "inactive", !.onstops = @ + 1]
      ELSE ov

\* resetStream(): mediaRecorder = null, the tracks of stream stopped
ResetStream(ov) == [ov EXCEPT !.mediaRecorder = "null"]

\* handleRecordingToggle(payload) for the message at the head of the channel,
\* up to the first await of startRecording
handleRecordingToggle ==
    /\ overlayMsgs # <<>>
    /\ Head(overlayMsgs).type = "recording-toggle"
    /\ overlayMsgs' = Tail(overlayMsgs)
    /\ IF Head(overlayMsgs).recording
         THEN LET ov == Shows(overlay, "loading")
              IN  IF ov.mediaRecorder # "null"
                    THEN overlay' = ov
                    ELSE /\ ov.acquiring < MaxPending
                         /\ overlay' = [ov EXCEPT !.skipProcessing = FALSE,
                                                  !.acquiring = @ + 1]
         ELSE overlay' = Stopped(overlay)
    /\ UNCHANGED <<rvars, tvars, errorCase, isRecording, isProcessing,
                   recordingMode, pendingEditText, cancelInProgress,
                   cancelTimers, editCaptures, runs, clipboard>>

\* handleRecordingCancel(mode); stop() of a recorder that is already inactive
\* throws, which ends the handler after skipProcessing = true
handleRecordingCancel ==
    /\ overlayMsgs # <<>>
    /\ Head(overlayMsgs).type = "recording-cancel"
    /\ overlay.timers < MaxTimers
    /\ overlayMsgs' = Tail(overlayMsgs)
    /\ LET ov == [overlay EXCEPT !.skipProcessing = TRUE]
       IN  overlay' = IF ov.mediaRecorder = "inactive"
                        THEN ov
                        ELSE WithTimer(Shows(Stopped(ov), "idle"))
    /\ UNCHANGED <<rvars, tvars, errorCase, isRecording, isProcessing,
                   recordingMode, pendingEditText, cancelInProgress,
                   cancelTimers, editCaptures, runs, clipboard>>

\* startRecording after its awaits (getSettings, getUserMedia,
\* attachToStream): the recorder is created and started, whatever arrived
\* in between; a recorder the variable held keeps recording unreferenced
GetUserMediaResolves ==
    /\ overlay.acquiring > 0
    /\ overlay' = [Shows(overlay, "recording") EXCEPT
                      !.acquiring = @ - 1,
                      !.mediaRecorder = "recording",
                      !.orphaned = @ \/ overlay.mediaRecorder = "recording"]
    /\ UNCHANGED <<rvars, tvars, errorCase, svars>>

\* The catch block of startRecording: getUserMedia rejected
GetUserMediaRejects ==
    /\ overlay.acquiring > 0
    /\ overlay' = [ResetStream(ShowsError(overlay, "")) EXCEPT
                      !.acquiring = @ - 1,
                      !.orphaned = @ \/ overlay.mediaRecorder = "recording"]
    /\ UNCHANGED <<rvars, tvars, errorCase, svars>>

\* mediaRecorder.onstop up to its invoke of processAudio
OnStop ==
    /\ overlay.onstops > 0
    /\ LET ov == [ResetStream(overlay) EXCEPT
                     !.onstops = @ - 1,
                     !.orphaned = @ \/ overlay.mediaRecorder = "recording"]
       IN  IF overlay.skipProcessing
             THEN overlay' = Shows(ov, "idle")
             ELSE \/ overlay' = ShowsError(ov, "")
                  \/ /\ ov.invoke = "none"
                     /\ overlay' = [Shows(ov, "processing") EXCEPT
                                       !.invoke = "sent"]
    /\ UNCHANGED <<rvars, tvars, errorCase, svars>>

\* ipcMain.handle('process-audio') starts: isProcessing = true
InvokeStarts ==
    /\ overlay.invoke = "sent"
    /\ overlay' = [overlay EXCEPT !.invoke = "running"]
    /\ isProcessing' = TRUE
    /\ UNCHANGED <<rvars, tvars, errorCase, isRecording, recordingMode,
                   pendingEditText, cancelInProgress, cancelTimers,
                   editCaptures, runs, clipboard, overlayMsgs>>

\* What process-audio can return
HandlerResults ==
    { OkResult(FinalTexts[1]), CancelledResult,
      HandlerCatch(createPasteFailureError),
      HandlerCatch(categorizeAPIError(APIError(401))),
      HandlerCatch(categorizeAPIError(APIError(500))),
      HandlerCatch(PlainError("Network error")) }

\* process-audio returns (cancelled only at one of its cancelInProgress checks,
\* ok:true without warning only past them) and onstop goes on with the result
InvokeReturns ==
    /\ overlay.invoke = "running"
    /\ isProcessing' = FALSE
    /\ \E result \in HandlerResults :
          /\ result.cancelled => cancelInProgress
          /\ (result.ok /\ result.warning = "") => ~cancelInProgress
          /\ LET ov == [overlay EXCEPT !.invoke = "none"]
                 isDismissable == result.category # "api_auth"
             IN  IF result.cancelled \/ result.ok
                   THEN /\ ov.timers < MaxTimers
                        /\ overlay' =
                             WithTimer(Shows(ov, IF ~result.cancelled
                                                    /\ result.warning # ""
                                                   THEN "warning" ELSE "idle"))
                 ELSE IF isDismissable
                   THEN /\ ov.timers < MaxTimers
                        /\ overlay' = WithTimer(ShowsError(ov, result.category))
                 ELSE overlay' = ShowsError(ov, result.category)
    /\ UNCHANGED <<rvars, tvars, errorCase, isRecording, recordingMode,
                   pendingEditText, cancelInProgress, cancelTimers,
                   editCaptures, runs, clipboard, overlayMsgs>>

\* A setTimeout callback of the overlay runs: setState('idle'), hideOverlay()
DismissTimerFires ==
    /\ overlay.timers > 0
    /\ overlay' = [Shows(overlay, "idle") EXCEPT !.timers = @ - 1]
    /\ UNCHANGED <<rvars, tvars, errorCase, svars>>

\* The steps the overlay and the runtime take by themselves
OverlayStep ==
    \/ handleRecordingToggle
    \/ handleRecordingCancel
    \/ GetUserMediaResolves
    \/ GetUserMediaRejects
    \/ OnStop
    \/ InvokeStarts
    \/ InvokeReturns
    \/ DismissTimerFires
    \/ CancelTimerFires

\* The cancel hotkey, with the pending 50 ms timers of earlier cancels capped
OverlayCancelRecording == cancelTimers < MaxTimers /\ cancelRecording

NextOverlay ==
    \/ HotkeyRecord
    \/ OverlayCancelRecording
    \/ cancelRecordingIgnored
    \/ OverlayStep

\* Every step of the overlay and every timer is eventually taken; the
\* hotkeys are pressed or not
SpecOverlay == InitSession /\ [][NextOverlay]_vars /\ WF_vars(OverlayStep)

(***************************************************************************)
(* Claims about cancellation and paste failure                             *)
(***************************************************************************)
\* C1: once cancelRecording has accepted a cancel request while a run is in
\* flight, no later step of that run writes to the clipboard or simulates a
\* paste.
C1_NoSideEffectsAfterCancel ==
    [][\A i \in 1..MaxRuns :
          (RunInFlight(runs[i]) /\ runs[i].cancelRequested)
             => /\ runs'[i].clipboardWrites = runs[i].clipboardWrites
                /\ runs'[i].pastes = runs[i].pastes]_vars

\* A run whose paste failed after its final text was written has reported
PasteFailureReported(run) ==
    /\ run.pc = "done"
    /\ run.pasteFailed
    /\ run.pastes = 1

C2_WitnessDictation ==
    \E i \in 1..MaxRuns :
       /\ PasteFailureReported(runs[i])
       /\ runs[i].mode = "dictation"
       /\ runs[i].finalText = FinalTexts[i]
       /\ runs[i].clipboardAtReport = FinalTexts[i]

(***************************************************************************)
(* Claims about the order of the stages                                    *)
(***************************************************************************)
\* The stages of handleDictationAudio, in the order of its statements
DictationStages == <<"transcribe", "clean", "write", "paste">>

IsPrefix(s, t) == Len(s) <= Len(t) /\ \A k \in 1..Len(s) : s[k] = t[k]

\* The stage a run awaits: the last one it started
AwaitedStage(run) ==
    CASE run.pc = "copying" -> "capture"
      [] run.pc = "settling" -> "capture"
      [] run.pc = "transcribing" -> "transcribe"
      [] run.pc = "cleaning" -> "clean"
      [] run.pc = "editing" -> "edit"
      [] run.pc = "pasting" -> "paste"

StageErrors ==
    TranscribeErrors \cup CleanErrors \cup EditErrors
       \cup {createCopyFailureError}

\* C13: in both pipelines, once shouldCancel() answers true while a stage
\* before the paste is pending, the run starts no later stage, and when it
\* ends it ends as cancelled (or with the failure of the pending stage).
C13_CancelCheckedBeforeEachStage ==
    [][\A i \in 1..MaxRuns :
          (RunInFlight(runs[i]) /\ shouldCancel(runs[i])
             /\ runs[i].pc # "pasting")
             => /\ runs'[i].stages = runs[i].stages
                /\ runs'[i].pc = "done"
                      => \/ isCancelledError(runs'[i].thrown)
                         \/ runs'[i].thrown \in StageErrors]_vars

(***************************************************************************)
(* Claims about what the handlers report                                   *)
(***************************************************************************)
\* A handler call ended because of cancellation: it returned at one of its
\* cancelInProgress checks, or its pipeline threw CancelledError
EndedByCancellation(run) ==
    /\ run.pc = "done"
    /\ run.caller = "handler"
    /\ run.result.cancelled \/ isCancelledError(run.thrown)

\* C14: a handler call that ended because of cancellation returns ok:false
\* and cancelled:true, with no error text.
C14_CancelledResultHasNoErrorText ==
    \A i \in 1..MaxRuns :
       EndedByCancellation(runs[i])
          => /\ runs[i].result.set
             /\ ~runs[i].result.ok
             /\ runs[i].result.cancelled
             /\ runs[i].result.error = ""

(***************************************************************************)
(* Claims about the edit mode                                              *)
(***************************************************************************)
\* This step is the start of process-edit in slot i
ProcessEditStarts(i) ==
    /\ runs[i].pc = "free"
    /\ runs'[i].pc # "free"
    /\ runs'[i].mode = "edit"
    /\ runs'[i].caller = "handler"

\* C15: when process-edit starts for a stopped edit recording, pendingEditText
\* still holds the text startEditMode captured before the recording, and the
\* pipeline gets it as its base text (it makes no capture of its own).
C15_PreCapturedTextIsBaseText ==
    [][\A i \in 1..MaxRuns :
          ProcessEditStarts(i)
             => /\ pendingEditText # Null
                /\ RunInFlight(runs'[i])
                      => /\ runs'[i].baseText = pendingEditText
                         /\ runs'[i].stages = <<"transcribe">>]_vars

\* This step ends the fallback capture of the run in slot i, which read the
\* selection sel from the clipboard
FallbackCaptureEnds(i, sel) ==
    /\ runs[i].pc = "settling"
    /\ runs'[i].pc # "settling"
    /\ Trim(clipboard) = sel

\* C16: an edit run without pendingEditText whose fallback capture finds no
\* selection ends there with an error of category edit_mode (no text to
\* edit), reported as a failure; the transcription is not called.
C16_NoTextFailsBeforeTranscription ==
    [][\A i \in 1..MaxRuns :
          FallbackCaptureEnds(i, "")
             => /\ runs'[i].pc = "done"
                /\ runs'[i].thrown.kind = "SmartSTTError"
                /\ runs'[i].thrown.category = "edit_mode"
                /\ runs'[i].thrown.message = "No text available for editing"
                /\ runs'[i].stages = <<"capture">>
                /\ runs'[i].baseText = Null
                /\ runs'[i].caller = "handler"
                      => /\ ~runs'[i].result.ok
                         /\ runs'[i].result.category = "edit_mode"]_vars

C16_Witness ==
    \E i \in 1..MaxRuns :
       /\ runs[i].pc = "done"
       /\ runs[i].mode = "edit"
       /\ runs[i].stages = <<"capture">>
       /\ runs[i].thrown.category = "edit_mode"
       /\ runs[i].baseText = Null

\* The positions of a run inside captureSelectedOrClipboardText
InCapture(run) == run.pc \in {"copying", "settling"}

\* C17: a capture remembers the text the clipboard holds when it starts, and
\* when it finishes, its copy resolved, rejected or timed out, the clipboard
\* holds that text again.
C17_CaptureRestoresClipboard ==
    [][/\ \A i \in 1..MaxRuns :
            /\ (~InCapture(runs[i]) /\ InCapture(runs'[i]))
                  => runs'[i].previousClipboard = clipboard
            /\ (InCapture(runs[i]) /\ ~InCapture(runs'[i]))
                  => clipboard' = runs[i].previousClipboard
       /\ Len(editCaptures') > Len(editCaptures)
            => editCaptures'[Len(editCaptures')].previousClipboard = clipboard
       /\ Len(editCaptures') < Len(editCaptures)
            => \E k \in 1..Len(editCaptures) :
                  /\ editCaptures' = RemoveAt(editCaptures, k)
                  /\ clipboard' = editCaptures[k].previousClipboard]_vars

C17_Witness ==
    \E i \in 1..MaxRuns :
       /\ runs[i].pc = "transcribing"
       /\ runs[i].stages = <<"capture", "transcribe">>
       /\ runs[i].baseText = "sel"
       /\ clipboard = "old"

\* The run has started the stage
HasStage(run, stage) == \E k \in 1..Len(run.stages) : run.stages[k] = stage

\* The clipboard writes of a run's fallback capture: clear and restore
CaptureWrites(run) == IF HasStage(run, "capture") THEN 2 ELSE 0

\* C18: an edit run whose instruction is empty after trimming ends with the
\* error editEmptyInstruction and never calls the text editor; an edit run
\* whose editor returned empty text ends with editEmptyResult and neither
\* writes the result to the clipboard nor pastes.  (A cancellation seen at
\* the check that precedes either test ends the run as cancelled.)
C18_EmptyInstructionAndEmptyResult ==
    \A i \in 1..MaxRuns :
       (runs[i].pc # "free" /\ runs[i].mode = "edit")
          => /\ runs[i].instruction = ""
                  => /\ runs[i].pc = "done"
                     /\ IF shouldCancel(runs[i])
                          THEN isCancelledError(runs[i].thrown)
                          ELSE /\ runs[i].thrown.category = "edit_mode"
                               /\ runs[i].thrown.message =
                                     "Empty edit instruction after transcription"
                               /\ runs[i].caller = "handler"
                                     => /\ ~runs[i].result.ok
                                        /\ runs[i].result.category = "edit_mode"
                     /\ ~HasStage(runs[i], "edit")
                     /\ runs[i].editedText = Null
                     /\ runs[i].clipboardWrites = CaptureWrites(runs[i])
                     /\ runs[i].pastes = 0
             /\ runs[i].editedText = ""
                  => /\ runs[i].pc = "done"
                     /\ IF shouldCancel(runs[i])
                          THEN isCancelledError(runs[i].thrown)
                          ELSE /\ runs[i].thrown.category = "edit_mode"
                               /\ runs[i].thrown.message =
                                     "LLM returned empty text after editing"
                               /\ runs[i].caller = "handler"
                                     => /\ ~runs[i].result.ok
                                        /\ runs[i].result.category = "edit_mode"
                     /\ ~HasStage(runs[i], "write")
                     /\ ~HasStage(runs[i], "paste")
                     /\ runs[i].finalText = ""
                     /\ runs[i].clipboardWrites = CaptureWrites(runs[i])
                     /\ runs[i].pastes = 0
             /\ HasStage(runs[i], "edit") => runs[i].instruction = "raw"
             /\ HasStage(runs[i], "write") => runs[i].editedText = FinalTexts[i]

C18_Witness ==
    \E i \in 1..MaxRuns :
       /\ runs[i].pc = "done"
       /\ runs[i].mode = "edit"
       /\ runs[i].instruction = "raw"
       /\ runs[i].editedText = ""
       /\ HasStage(runs[i], "edit")
       /\ runs[i].thrown = createEditEmptyResultError

C18_WitnessEmptyInstruction ==
    \E i \in 1..MaxRuns :
       /\ runs[i].pc = "done"
       /\ runs[i].mode = "edit"
       /\ runs[i].instruction = ""
       /\ runs[i].stages = <<"capture", "transcribe">>
       /\ runs[i].thrown = createEditEmptyInstructionError

\* The simulateCopy of the fallback capture of the handler call in slot i
\* rejects or times out in this step
FallbackCopyFails(i) ==
    /\ runs[i].pc = "copying"
    /\ runs[i].caller = "handler"
    /\ runs'[i].pc = "done"

\* C19: when simulateCopy fails during the fallback capture of an edit run,
\* process-edit reports a failure (ok:false) that differs from the report of
\* 'no text to edit', and the transcription is not called.
C19_CopyFailureIsHardFailure ==
    [][\A i \in 1..MaxRuns :
          FallbackCopyFails(i)
             => /\ runs'[i].result.set
                /\ ~runs'[i].result.ok
                /\ runs'[i].result # HandlerCatch(createEditNoTextError)
                /\ ~HasStage(runs'[i], "transcribe")]_vars

\* This step ends the capture of a startEditMode call, which read the
\* selection sel from the clipboard
PreCaptureEnds(sel) ==
    /\ \E k \in 1..Len(editCaptures) :
          /\ editCaptures[k].pc = "settling"
          /\ editCaptures' = RemoveAt(editCaptures, k)
    /\ Len(editCaptures') < Len(editCaptures)
    /\ Trim(clipboard) = sel

\* C20: when the capture of startEditMode yields no text, the recording does
\* not start (isRecording, recordingMode and pendingEditText keep their
\* values) and the only message sent to the overlay is an edit warning.
C20_NoTextNoRecording ==
    [][PreCaptureEnds("")
          => /\ isRecording' = isRecording
             /\ recordingMode' = recordingMode
             /\ pendingEditText' = pendingEditText
             /\ overlayMsgs' = Append(overlayMsgs, EditWarningMsg)
             /\ EditWarningMsg.type = "edit-warning"]_vars

C20_Witness ==
    /\ overlayMsgs # <<>>
    /\ overlayMsgs[Len(overlayMsgs)].type = "edit-warning"
    /\ ~isRecording
    /\ pendingEditText = Null
    /\ editCaptures = <<>>
    /\ clipboard = "old"

(***************************************************************************)
(* Claims about the session state                                          *)
(***************************************************************************)
\* The handler calls whose pipeline is in flight
RunsInFlight == {i \in 1..MaxRuns : RunInFlight(runs[i])}

\* C21: at most one session is active: isRecording and isProcessing are
\* never both true, and at most one pipeline run is in flight.
C21_OneSessionAtATime ==
    /\ ~(isRecording /\ isProcessing)
    /\ Cardinality(RunsInFlight) <= 1

\* This step is an accepted cancelRecording(): it arms the 50 ms timer
CancelAccepted == cancelTimers' > cancelTimers

\* C22: cancelRecording() acts only while recording or processing; it then
\* leaves isRecording and isProcessing false and pendingEditText null and
\* sends recording-cancel to the overlay.  While idle it changes nothing (no
\* step arms the timer or sends recording-cancel from an idle state).
C22_CancelClearsSession ==
    [][/\ CancelAccepted
            => /\ isRecording \/ isProcessing
               /\ ~isRecording'
               /\ ~isProcessing'
               /\ pendingEditText' = Null
               /\ cancelInProgress'
               /\ Len(overlayMsgs') = Len(overlayMsgs) + 1
               /\ overlayMsgs'[Len(overlayMsgs')].type = "recording-cancel"
               /\ overlayMsgs'[Len(overlayMsgs')].mode = recordingMode
       /\ (~isRecording /\ ~isProcessing)
            => /\ ~CancelAccepted
               /\ cancelInProgress' => cancelInProgress
               /\ \A k \in 1..Len(overlayMsgs') :
                     overlayMsgs'[k].type = "recording-cancel"
                        => \E j \in 1..Len(overlayMsgs) :
                              overlayMsgs[j] = overlayMsgs'[k]]_vars

C22_Witness ==
    /\ cancelInProgress
    /\ cancelTimers = 1
    /\ ~isRecording
    /\ ~isProcessing
    /\ pendingEditText = Null
    /\ overlayMsgs # <<>>
    /\ overlayMsgs[Len(overlayMsgs)].type = "recording-cancel"
    /\ \E i \in 1..MaxRuns : RunInFlight(runs[i]) /\ runs[i].cancelRequested

\* This step ends the process-edit call in slot i
ProcessEditEnds(i) ==
    /\ runs[i].pc # "done"
    /\ runs'[i].pc = "done"
    /\ runs'[i].mode = "edit"
    /\ runs'[i].caller = "handler"

\* C23: pendingEditText is null when an edit run has ended, whether it
\* completed, was cancelled or failed; cancelRecording leaves it null too.
C23_PendingEditTextCleared ==
    [][/\ \A i \in 1..MaxRuns :
            ProcessEditEnds(i) => pendingEditText' = Null
       /\ CancelAccepted => pendingEditText' = Null]_vars

C23_Witness ==
    \E i \in 1..MaxRuns :
       /\ runs[i].pc = "done"
       /\ runs[i].mode = "edit"
       /\ runs[i].result.ok
       /\ runs[i].finalText = FinalTexts[i]
       /\ pendingEditText = Null
       /\ isRecording
       /\ recordingMode = "edit"

\* This step is a startEditMode() call up to its simulateCopy
StartEditModeCalled == Len(editCaptures') > Len(editCaptures)

\* C24: while a session is recording, startEditMode is ignored: no step
\* starts a capture (no copy keystroke is simulated), and no capture that
\* ends changes isRecording, the session mode or pendingEditText.
C24_StartEditModeIgnoredWhileRecording ==
    [][isRecording
          => /\ ~StartEditModeCalled
             /\ Len(editCaptures') < Len(editCaptures)
                   => /\ isRecording' = isRecording
                      /\ recordingMode' = recordingMode
                      /\ pendingEditText' = pendingEditText]_vars

(***************************************************************************)
(* Claims about the transcription and the credential                       *)
(***************************************************************************)
\* A run that ended in transcribeAudio, which threw
TranscribeThrew(run) ==
    /\ run.pc = "done"
    /\ run.stages # <<>>
    /\ run.stages[Len(run.stages)] = "transcribe"
    /\ run.instruction = Null
    /\ run.thrown \notin {NoError, CancelledError}

\* C25: with an empty audio buffer transcribeAudio fails with an error of
\* category audio, and the speech-to-text service is not called.
C25_EmptyAudioIsAudioError ==
    \A i \in 1..MaxRuns :
       (TranscribeThrew(runs[i]) /\ runs[i].bufferLength = 0)
          => /\ runs[i].thrown.kind = "SmartSTTError"
             /\ runs[i].thrown.category = "audio"
             /\ runs[i].sttCalls = 0

\* A TypedError: an error with category, userMessage and canRetry
IsTypedError(error) == error.kind = "SmartSTTError"

\* C26: every failure transcribeAudio raises after it called the service is
\* a TypedError (the raw service error went through categorizeAPIError).
C26_TranscribeRaisesTypedErrors ==
    \A i \in 1..MaxRuns :
       (TranscribeThrew(runs[i]) /\ runs[i].sttCalls > 0)
          => /\ IsTypedError(runs[i].thrown)
             /\ runs[i].thrown.category # "none"
             /\ runs[i].thrown.userMessage # ""

\* C27: a handler call that finds no API credential fails with an error of
\* category configuration, and its pipeline is not started (no service is
\* called).
C27_MissingKeyIsConfigurationError ==
    \A i \in 1..MaxRuns :
       (runs[i].pc = "done" /\ runs[i].caller = "handler"
          /\ runs[i].apiKey = "")
          => /\ runs[i].result.set
             /\ ~runs[i].result.ok
             /\ runs[i].result.category = "configuration"
             /\ runs[i].stages = <<>>
             /\ runs[i].sttCalls = 0

C29_IsRetryableError ==
    errorCase.pc = "decided"
       => LET error == errorCase.error
          IN  /\ isCancelledError(error) => ~errorCase.retryable
              /\ IsTypedError(error) => errorCase.retryable = error.canRetry
              /\ error.kind = "APIError"
                    => /\ errorCase.retryable = errorCase.categorized.canRetry
                       /\ errorCase.retryable
                             = (error.status \notin (400..499) \ {429})
              /\ error.kind = "Error" => errorCase.retryable

C29_Witness ==
    /\ errorCase.pc = "decided"
    /\ errorCase.error = APIError(401)
    /\ errorCase.categorized = createAuthError
    /\ ~errorCase.retryable

\* The TypedErrors the factory functions and categorizeAPIError produce
ProducedErrors == FactoryErrors \cup {errorCase.categorized}

HandlerEnds(i) ==
    /\ runs[i].pc # "done"
    /\ runs'[i].pc = "done"
    /\ runs'[i].caller = "handler"

C31_WitnessWritten ==
    \E i \in 1..MaxRuns :
       /\ runs[i].pc = "done"
       /\ HasStage(runs[i], "paste")
       /\ runs[i].clipboardAtStart = "old"
       /\ runs[i].finalText = FinalTexts[i]
       /\ clipboard = FinalTexts[i]


\* C35: a handler call reports cancelled:true only if its run simulated no
\* paste.
C35_CancelledResultMeansNoPaste ==
    \A i \in 1..MaxRuns :
       (/\ runs[i].pc = "done"
        /\ runs[i].caller = "handler"
        /\ runs[i].result.cancelled)
          => runs[i].pastes = 0


\* A stopped recording has not had its result reported yet, and no cancel
\* has been accepted for it: its stop message is on its way to the overlay,
\* or its handler call is in flight
AudioAwaitsResult ==
    \/ \E k \in 1..Len(overlayMsgs) : IsStopMsg(overlayMsgs[k])
    \/ \E i \in 1..MaxRuns :
          /\ RunInFlight(runs[i])
          /\ runs[i].caller = "handler"
          /\ ~runs[i].cancelRequested

\* C34: from the stop of a recording to the report of its result a cancel
\* request is accepted: the session is recording or processing, which is
\* what cancelRecording requires to act.
C34_CancelAcceptedAfterStop ==
    AudioAwaitsResult => (isRecording \/ isProcessing)


\* C39: pendingEditText is non-null only while an edit-mode recording is in
\* progress; it is null whenever the controller is idle or records in
\* dictation mode.
C39_PendingEditTextOnlyWhileEditRecording ==
    pendingEditText # Null => (isRecording /\ recordingMode = "edit")


\* C36: a handler call reports ok:true, with or without a warning, only if
\* its run wrote its final text to the clipboard.
C36_OkResultMeansTextWritten ==
    \A i \in 1..MaxRuns :
       (/\ runs[i].pc = "done"
        /\ runs[i].caller = "handler"
        /\ runs[i].result.ok)
          => HasStage(runs[i], "write")


\* C37: the timeout error that withRetry rethrows once every attempt of a
\* text cleaning or text editing call has timed out leaves the catch block
\* of cleanText / applyInstructionToText with category timeout: an error
\* that is already typed keeps its category and canRetry through
\* categorizeAPIError.
C37_TimeoutKeepsCategory ==
    (/\ errorCase.pc \in {"categorized", "decided"}
     /\ errorCase.error.kind = "SmartSTTError"
     /\ errorCase.error.category = "timeout")
       => /\ errorCase.categorized.category = "timeout"
          /\ errorCase.categorized.canRetry = errorCase.error.canRetry


\* C33: when the session is cancelled while a text cleaning or text editing
\* call waits in a retry backoff, no further attempt of the call is started.
C33_NoAttemptAfterCancelInBackoff ==
    (/\ finalConfig = createAPIRetryConfig
     /\ cancelSetAt.rpc = "sleep")
       => calls = cancelSetAt.calls


\* C38: every pipeline run terminates: a handler call in flight eventually
\* returns its result, whether or not the services and the copy and paste
\* simulations ever respond.
C38_EveryRunTerminates ==
    \A i \in 1..MaxRuns :
       [](RunInFlight(runs[i]) => <>(runs[i].pc = "done"))


\* Nothing of the overlay is pending: no message, no acquisition, no onstop
\* handler, no invoke
OverlaySettled ==
    /\ overlayMsgs = <<>>
    /\ overlay.acquiring = 0
    /\ overlay.onstops = 0
    /\ overlay.invoke = "none"

\* C40: the overlay's recorder follows the controller: once every pending
\* step has settled, a MediaRecorder is recording only if isRecording is
\* true.
C40_RecorderFollowsController ==
    (OverlaySettled /\ (overlay.mediaRecorder = "recording" \/ overlay.orphaned))
       => isRecording


\* C32: an error whose category is not api_auth does not stay: the overlay
\* eventually leaves the error state by itself; an api_auth error is not
\* dismissed by a timer, it stays until the user acts.
C32_ErrorsAutoDismissExceptAuth ==
    /\ (overlay.state = "error" /\ overlay.category # "api_auth")
          ~> (overlay.state # "error")
    /\ [][(overlay.state = "error" /\ overlay.category = "api_auth")
             => overlay'.timers >= overlay.timers]_vars

====
